---- MODULE Spec2Model ----
(***************************************************************************)
(* Connection handling of the Jarvis desktop front end.                    *)
(*                                                                         *)
(*   SpecW   : WebSocketService (connect, disconnect, attemptReconnect,    *)
(*             sendMessage and the socket's lifecycle handlers)            *)
(*   SpecReg : WebSocketService listener registry (on, off, emit)          *)
(*   SpecA   : ApiService (initializeSocket, disconnectSocket, the event   *)
(*             relays, addEventListener, removeEventListener, send calls)  *)
(*   SpecUI  : the App component and its connection status, in each of the *)
(*             builds the repository holds (see Builds)                    *)
(*   SpecWMany : SpecW with maxReconnectAttempts + 1 sockets               *)
(*   SpecAck : ApiService with the promise of sendSocketMessage (fair)     *)
(*   SpecPanel : ChatPanel.toggleMic over the socket of ApiService         *)
(*   SpecAppSlice, SpecChat, SpecSecurity : the slices of the redux store  *)
(*                                                                         *)
(* socket.io-client is the environment: a socket created by io() is        *)
(* "opening", becomes "open" on 'connect', leaves "open" on 'disconnect',  *)
(* and is "closed" after socket.disconnect(); a closed socket delivers no  *)
(* further events.  "lost" is a socket the library no longer reconnects by *)
(* itself (server side disconnect, reconnection given up).                 *)
(***************************************************************************)
EXTENDS Integers, Sequences, FiniteSets, Bags, TLC

\* ------------------------------------------------------------------ bounds
MaxSockets == 3
MaxMsgs == 1
MaxTimers == 2
MaxListeners == 2
MaxClock == 2
MaxRequests == 3

\* ------------------------------------------------------- program constants
MaxReconnectAttempts == 5
ReconnectDelay == 1000
MaxNotifications == 10

\* callbacks a consumer can register; hThrow throws when it is invoked
Handlers == {"h1", "hThrow"}
Throws(h) == h = "hThrow"

\* callbacks registered with WebSocketService: hOff is a one-shot callback, it calls
\* off(event, hOff) when it is invoked
RegHandlers == Handlers \cup {"hOff"}
RemovesItself(h) == h = "hOff"

\* events WebSocketService re-emits to its listeners
WsEvents == {"chat_response", "memory_update"}

\* socket events of ApiService that consumers of the model listen to
Lifecycle == {"connect", "connect_error", "disconnect", "reconnect_attempt", "reconnect"}
ListenEvents == {"connect", "chat_response"}

\* the lifecycle handlers App registers with ApiService, and the event of each
AppHandlers == {"onConnect", "onDisconnect", "onConnectError", "onReconnectAttempt",
                "onReconnect"}
AppEventOf(h) ==
  CASE h = "onConnect" -> "connect"
    [] h = "onDisconnect" -> "disconnect"
    [] h = "onConnectError" -> "connect_error"
    [] h = "onReconnectAttempt" -> "reconnect_attempt"
    [] h = "onReconnect" -> "reconnect"
AppEvents == {AppEventOf(h) : h \in AppHandlers}

\* every event name that gets an entry in eventListeners
AllEvents == ListenEvents \cup AppEvents

\* the builds of the front end in the repository:
\*   "api"    App (App.js:128-176) over ApiService (services/api.js)
\*   "early"  App (part_001) over the ApiService of part_015
\*   "bridge" App (App.js:16-85) over socketService (part_014)
\*   "direct" App (part_002) over socketService (part_013)
ApiBuilds == {"api", "early"}
SvcBuilds == {"bridge", "direct"}
Builds == ApiBuilds \cup SvcBuilds

SendOps == {"sendSocketMessage", "startVoiceRecognition", "stopVoiceRecognition",
            "sendChatMessage"}

ClientDisconnect == "io client disconnect"
ServerReasons == {"io server disconnect", "transport close"}

\* this.socket = null
NullSocket == [st |-> "null", promise |-> "none"]
\* what io() returns: a socket that is opening, and connect()'s pending promise
FreshSocket == [st |-> "opening", promise |-> "pending"]

VARIABLES
  \* WebSocketService fields
  socket,              \* this.socket: library state of the socket and the state of the
                       \* promise of the connect() call that made it
  isConnected,         \* this.isConnected
  reconnectAttempts,   \* this.reconnectAttempts
  \* environment of WebSocketService
  orphans,             \* bag of the sockets io() returned that this.socket no longer
                       \* refers to and that were never closed
  timers,              \* pending setTimeout callbacks of attemptReconnect, in scheduling
                       \* order; stale marks one scheduled before a disconnect() call
  emitted,             \* messages handed to socket.emit by sendMessage, in order
  \* observations
  requested,           \* sendMessage calls so far: id, connection status at the call, return value
  cancelled            \* what the last disconnect() since the last connect() closed:
                       \* "in_flight" (first connect pending), "established", "other"

VARIABLES
  \* WebSocketService listener registry
  listeners,           \* this.listeners: event name -> array of callbacks
  lastOff,             \* the (event, callback) of the last off call, <<>> when on was
                       \* called for that pair since
  lastEmit             \* the last emit(event): the callback just removed when it began,
                       \* the callbacks it invoked, in order, and the callbacks that were
                       \* registered when it began and that it did not invoke

VARIABLES
  \* api.js module state
  apiSocket,           \* socket (module variable), with the promise of the
                       \* initializeSocket() call that made it
  eventListeners,      \* eventListeners: event name -> Set of callbacks, in insertion order
  \* environment of ApiService
  apiOrphans,          \* bag of the sockets io() returned that socket no longer refers to
                       \* and that were never closed
  \* observations
  lastRelay,           \* the last socket event relayed: the callbacks registered then,
                       \* the ones invoked, and what escaped to the socket's emitter
  lastSend             \* the last send call: whether a connected socket existed, and
                       \* how the call ended

VARIABLES
  \* the App component
  build,               \* which build runs
  connectionStatus,    \* useState("connecting") of App
  isMounted,           \* the effect of App has run and its cleanup has not
  \* socketService module state
  svcSocket,           \* library state of the socket the module creates when imported
  jarvisListeners,     \* 'jarvis_response' listeners on that socket: how many belong to
                       \* the mounted App (live) and how many to an unmounted one (stale)
  \* observations
  lastEvent,           \* the most recent lifecycle event of the socket App uses
  prevStatus,          \* connectionStatus when that event arrived, "none" when the
                       \* component has been mounted since
  lastJarvis           \* the last inbound jarvis_response: the callbacks it reached

connVars == <<socket, isConnected, reconnectAttempts, orphans, timers, cancelled>>
sendVars == <<emitted, requested>>
regVars == <<listeners, lastOff, lastEmit>>
apiVars == <<apiSocket, apiOrphans, eventListeners, lastRelay, lastSend>>

uiVars == <<build, connectionStatus, isMounted, svcSocket, jarvisListeners, lastEvent,
           prevStatus, lastJarvis>>

\* the app slice of the redux store
VARIABLES
  appIsConnected,       \* state.isConnected
  appConnectionStatus,  \* state.connectionStatus
  isOffline,            \* state.isOffline
  notifications,        \* state.notifications: the ids of the entries, oldest first
  now,                  \* what Date.now() returns
  evicted               \* observation: the last addNotification shifted an entry out

appSliceVars == <<appIsConnected, appConnectionStatus, isOffline, notifications, now, evicted>>

\* callers of ApiService
VARIABLES
  ackPromise            \* the promise of the one sendSocketMessage call that is followed:
                        \* "none", "pending", "resolved_ack" or "resolved_failure"

callVars == <<ackPromise>>

\* the chat slice of the redux store
VARIABLES
  chatRequests,         \* per sendMessage request: "idle", "pending", "fulfilled", "rejected"
  isProcessing,         \* state.isProcessing
  chatError,            \* state.error: "null" or "message"
  chatMessages,         \* state.messages: sender or type of each entry, oldest first
  lastMessageId         \* state.lastMessageId: the position of that message, 0 for null

chatVars == <<chatRequests, isProcessing, chatError, chatMessages, lastMessageId>>

\* the chat panel, in either of the two files the repository holds
VARIABLES
  panel,                \* which ChatPanel: "root" (src/ChatPanel.js) or "components"
  listening,            \* its listening flag
  lastToggle            \* observation: what the last toggleMic called and how it ended

panelVars == <<panel, listening, lastToggle>>

\* the security slice of the redux store
VARIABLES
  authRequests,         \* per authenticate request: "idle", "pending", "fulfilled", "rejected"
  isAuthenticated,      \* state.isAuthenticated
  user,                 \* state.user: "null" or the user of the response
  securityLevel,        \* state.securityLevel
  isLoading,            \* state.isLoading
  authError             \* state.error: "null" or "message"

secVars == <<authRequests, isAuthenticated, user, securityLevel, isLoading, authError>>

\* what neither the connection services nor App touch
frontVars == <<appSliceVars, callVars, chatVars, panelVars, secVars>>

vars == <<connVars, sendVars, regVars, apiVars, uiVars, frontVars>>

Min(a, b) == IF a < b THEN a ELSE b

RECURSIVE Pow2(_)
Pow2(n) == IF n = 0 THEN 1 ELSE 2 * Pow2(n - 1)

\* ------------------------------------------------------------ initial state
InitW ==
  /\ socket = NullSocket
  /\ isConnected = FALSE
  /\ reconnectAttempts = 0
  /\ orphans = EmptyBag
  /\ timers = <<>>
  /\ emitted = <<>>
  /\ requested = <<>>
  /\ cancelled = "none"

InitReg ==
  /\ listeners = [e \in WsEvents |-> <<>>]
  /\ lastOff = <<>>
  /\ lastEmit = [event |-> "none", removed |-> {}, calls |-> <<>>, skipped |-> {}]

NoRelay == [event |-> "none", snapshot |-> <<>>, calls |-> <<>>, escaped |-> "none"]
NoSend == [op |-> "none", connected |-> FALSE, outcome |-> "none"]

InitA ==
  /\ apiSocket = NullSocket
  /\ apiOrphans = EmptyBag
  /\ eventListeners = [e \in AllEvents |-> <<>>]
  /\ lastRelay = NoRelay
  /\ lastSend = NoSend

NoEvent == [name |-> "none", reason |-> "none"]
NoListeners == [live |-> 0, stale |-> 0]

InitUI(b) ==
  /\ build = b
  /\ connectionStatus = "connecting"
  /\ isMounted = FALSE
  /\ svcSocket = "opening"
  /\ jarvisListeners = NoListeners
  /\ lastEvent = NoEvent
  /\ prevStatus = "none"
  /\ lastJarvis = NoListeners

\* initialState of appSlice.js
InitAppSlice ==
  /\ appIsConnected = FALSE
  /\ appConnectionStatus = "disconnected"
  /\ isOffline = FALSE
  /\ notifications = <<>>
  /\ now = 0
  /\ evicted = FALSE

InitCalls == ackPromise = "none"

\* initialState of the chat slice
InitChat ==
  /\ chatRequests = [r \in 1..MaxRequests |-> "idle"]
  /\ isProcessing = FALSE
  /\ chatError = "null"
  /\ chatMessages = <<>>
  /\ lastMessageId = 0

\* useState(false) of ChatPanel
PanelFiles == {"root", "components"}
NoToggle == [op |-> "none", outcome |-> "none"]

InitPanel(p) ==
  /\ panel = p
  /\ listening = FALSE
  /\ lastToggle = NoToggle

\* initialState of the security slice
InitSecurity ==
  /\ authRequests = [r \in 1..MaxRequests |-> "idle"]
  /\ isAuthenticated = FALSE
  /\ user = "null"
  /\ securityLevel = "standard"
  /\ isLoading = FALSE
  /\ authError = "null"

InitSlices == InitAppSlice /\ InitCalls /\ InitChat /\ InitSecurity

InitFront == InitSlices /\ InitPanel("components")

Init == InitW /\ InitReg /\ InitA /\ InitUI("api") /\ InitFront

\* the same, with any of the builds
InitBuilds == InitW /\ InitReg /\ InitA /\ InitFront /\ \E b \in Builds : InitUI(b)

\* ------------------------------------------------- WebSocketService helpers
\* sockets that are neither closed nor garbage: the referenced one and the orphans
LiveCount == (IF socket = NullSocket THEN 0 ELSE 1) + BagCardinality(orphans)

\* the sockets that can deliver an event: cur tells this.socket from an orphan
Targets ==
  (IF socket = NullSocket THEN {} ELSE {[cur |-> TRUE, s |-> socket]})
  \cup {[cur |-> FALSE, s |-> o] : o \in BagToSet(orphans)}

\* the socket t is now in state new
SetSock(t, new) ==
  IF t.cur
  THEN /\ socket' = new
       /\ orphans' = orphans
  ELSE /\ socket' = socket
       /\ orphans' = (orphans (-) SetToBag({t.s})) (+) SetToBag({new})

\* resolve / reject of an already settled promise are no-ops
Settle(p, outcome) == IF p = "pending" THEN outcome ELSE p

\* disconnect handler: "if (reason !== 'io client disconnect')"
ShouldReconnect_Always(reason) == TRUE
ShouldReconnect(reason) == reason # ClientDisconnect

\* setTimeout delay of attemptReconnect, n = reconnectAttempts after the increment
BackoffDelay_Doubling(n) == ReconnectDelay * Pow2(n - 1)
BackoffDelay(n) == ReconnectDelay * n

\* attemptReconnect(): the values of reconnectAttempts and timers after the call
AttemptReconnect_NoLimit(attempts, tms) ==
  [attempts |-> attempts + 1,
   timers   |-> Append(tms, [delay |-> BackoffDelay(attempts + 1),
                             attempt |-> attempts + 1,
                             stale |-> FALSE])]
AttemptReconnect(attempts, tms) ==
  IF attempts < MaxReconnectAttempts
  THEN [attempts |-> attempts + 1,
        timers   |-> Append(tms, [delay |-> BackoffDelay(attempts + 1),
                                  attempt |-> attempts + 1,
                                  stale |-> FALSE])]
  ELSE [attempts |-> attempts, timers |-> tms]

\* the 'disconnect' handler: reconnectAttempts and timers after it ran
OnDisconnect(reason) ==
  IF ShouldReconnect(reason)
  THEN AttemptReconnect(reconnectAttempts, timers)
  ELSE [attempts |-> reconnectAttempts, timers |-> timers]

\* ------------------------------------------------ WebSocketService actions
\* connect(url): io() makes a new socket and this.socket is overwritten; the
\* socket it referred to stays as it is
ConnectUpTo(n) ==
  /\ LiveCount < n
  /\ socket' = FreshSocket
  /\ orphans' = IF socket = NullSocket THEN orphans ELSE orphans (+) SetToBag({socket})
  /\ cancelled' = "none"
  /\ UNCHANGED <<isConnected, reconnectAttempts, timers, sendVars, regVars, frontVars, apiVars, uiVars>>

Connect == ConnectUpTo(MaxSockets)

\* a socket reports 'connect'
EvConnect(t) ==
  /\ t.s.st = "opening"
  /\ SetSock(t, [st |-> "open", promise |-> Settle(t.s.promise, "resolved")])
  /\ isConnected' = TRUE
  /\ reconnectAttempts' = 0
  /\ UNCHANGED <<timers, cancelled, sendVars, regVars, frontVars, apiVars, uiVars>>

\* a socket reports 'connect_error'; the library retries or gives up
EvConnectError(t, giveUp) ==
  /\ t.s.st = "opening"
  /\ SetSock(t, [st |-> IF giveUp THEN "lost" ELSE "opening",
                 promise |-> IF reconnectAttempts >= MaxReconnectAttempts
                             THEN Settle(t.s.promise, "rejected")
                             ELSE t.s.promise])
  /\ isConnected' = FALSE
  /\ UNCHANGED <<reconnectAttempts, timers, cancelled, sendVars, regVars, frontVars,
                 apiVars, uiVars>>

\* a socket reports 'disconnect' with a reason that is not the client's own
EvDisconnect(t, reason) ==
  /\ t.s.st = "open"
  /\ reason \in ServerReasons
  /\ Len(timers) < MaxTimers
  /\ SetSock(t, [t.s EXCEPT !.st = IF reason = "io server disconnect"
                                   THEN "lost" ELSE "opening"])
  /\ isConnected' = FALSE
  /\ LET r == OnDisconnect(reason) IN
       /\ reconnectAttempts' = r.attempts
       /\ timers' = r.timers
  /\ UNCHANGED <<cancelled, sendVars, regVars, frontVars, apiVars, uiVars>>

\* disconnect(): socket.disconnect() runs the 'disconnect' handler synchronously
\* when the socket was connected, then this.socket = null, isConnected = false
Disconnect ==
  /\ socket # NullSocket
  /\ LET wasOpen == socket.st = "open"
         r == IF wasOpen THEN OnDisconnect(ClientDisconnect)
              ELSE [attempts |-> reconnectAttempts, timers |-> timers]
     IN /\ reconnectAttempts' = r.attempts
        /\ timers' = [i \in DOMAIN r.timers |-> [r.timers[i] EXCEPT !.stale = TRUE]]
        /\ cancelled' = IF wasOpen THEN "established"
                       ELSE IF socket = FreshSocket THEN "in_flight" ELSE "other"
  /\ socket' = NullSocket
  /\ isConnected' = FALSE
  /\ UNCHANGED <<orphans, sendVars, regVars, frontVars, apiVars, uiVars>>

\* a later timer can run before an earlier one only if its delay is shorter
CanFire(i) == \A j \in 1..(i - 1) : timers[i].delay < timers[j].delay

RemoveAt(seq, i) == SubSeq(seq, 1, i - 1) \o SubSeq(seq, i + 1, Len(seq))

\* the setTimeout callback: "if (this.socket) this.socket.connect()";
\* socket.connect() reopens a socket the library had stopped reconnecting
TimerFire(i) ==
  /\ i \in DOMAIN timers
  /\ CanFire(i)
  /\ timers' = RemoveAt(timers, i)
  /\ socket' = IF socket # NullSocket /\ socket.st = "lost"
               THEN [socket EXCEPT !.st = "opening"]
               ELSE socket
  /\ UNCHANGED <<isConnected, reconnectAttempts, orphans, cancelled, sendVars, regVars, frontVars, apiVars, uiVars>>

\* the connection this.socket refers to was established, then lost, and not closed
Reconnecting ==
  /\ socket # NullSocket
  /\ ~isConnected
  /\ socket.st \in {"opening", "lost"}
  /\ socket.promise = "resolved"

\* the connection status a caller of sendMessage sees
SendStatus ==
  IF isConnected THEN "connected"
  ELSE IF Reconnecting THEN "reconnecting" ELSE "other"

\* sendMessage(type, data): "if (this.isConnected && this.socket)"
CanSend_NoFlag == socket # NullSocket
CanSend == isConnected /\ socket # NullSocket

SendMessage ==
  /\ Len(requested) < MaxMsgs
  /\ LET m == Len(requested) + 1 IN
       /\ requested' = Append(requested,
                              [id |-> m, status |-> SendStatus, ret |-> CanSend])
       /\ emitted' = IF CanSend THEN Append(emitted, m) ELSE emitted
  /\ UNCHANGED <<connVars, regVars, frontVars, apiVars, uiVars>>

NextW ==
  \/ Connect
  \/ Disconnect
  \/ \E t \in Targets : EvConnect(t)
  \/ \E t \in Targets, g \in BOOLEAN : EvConnectError(t, g)
  \/ \E t \in Targets, r \in ServerReasons : EvDisconnect(t, r)
  \/ \E i \in 1..MaxTimers : TimerFire(i)

SpecW == Init /\ [][NextW]_vars

\* WebSocketService with one socket more than maxReconnectAttempts, so that the
\* attempts of one budget can all be used and one more loss can follow
ManySockets == MaxReconnectAttempts + 1

NextWMany ==
  \/ ConnectUpTo(ManySockets)
  \/ Disconnect
  \/ \E t \in Targets : EvConnect(t)
  \/ \E t \in Targets, g \in BOOLEAN : EvConnectError(t, g)
  \/ \E t \in Targets, r \in ServerReasons : EvDisconnect(t, r)
  \/ \E i \in 1..MaxTimers : TimerFire(i)

SpecWMany == Init /\ [][NextWMany]_vars

NextSend ==
  \/ NextW
  \/ SendMessage

SpecSend == Init /\ [][NextSend]_vars

\* ------------------------------------- WebSocketService listener registry
\* Array.prototype.indexOf: the first index of h, 0 when there is none
RECURSIVE IndexOf(_, _, _)
IndexOf(seq, h, i) ==
  IF i > Len(seq) THEN 0
  ELSE IF seq[i] = h THEN i ELSE IndexOf(seq, h, i + 1)

\* forEach over the callbacks hs: with guarded, each call sits in its own try/catch;
\* without, the first callback that throws ends the loop and the exception escapes
RECURSIVE RunFrom(_, _, _)
RunFrom(hs, guarded, i) ==
  IF i > Len(hs) THEN [calls |-> <<>>, escaped |-> FALSE]
  ELSE IF Throws(hs[i]) /\ ~guarded
       THEN [calls |-> <<hs[i]>>, escaped |-> TRUE]
       ELSE LET rest == RunFrom(hs, guarded, i + 1)
            IN [calls |-> <<hs[i]>> \o rest.calls, escaped |-> rest.escaped]

RunHandlers(hs, guarded) == RunFrom(hs, guarded, 1)

\* on(event, callback): push
OnPush(cbs, h) == Append(cbs, h)

On(e, h) ==
  /\ Len(listeners[e]) < MaxListeners
  /\ listeners' = [listeners EXCEPT ![e] = OnPush(@, h)]
  /\ lastOff' = IF lastOff = <<e, h>> THEN <<>> ELSE lastOff
  /\ UNCHANGED <<lastEmit, connVars, sendVars, apiVars, uiVars, frontVars>>

\* off(event, callback) on the array cbs: splice out the first occurrence
OffSplice(cbs, h) ==
  LET i == IndexOf(cbs, h, 1) IN IF i > 0 THEN RemoveAt(cbs, i) ELSE cbs

Off(e, h) ==
  /\ listeners' = [listeners EXCEPT ![e] = OffSplice(@, h)]
  /\ lastOff' = <<e, h>>
  /\ UNCHANGED <<lastEmit, connVars, sendVars, apiVars, uiVars, frontVars>>

\* callbacks.forEach(...) of emit over the array cbs itself, from index k: forEach
\* visits the indices below the length the array had at the start (len) and skips
\* an index the array no longer has; each callback runs in its own try/catch, and
\* one that calls off splices the array that is being walked
RECURSIVE EmitFrom(_, _, _)
EmitFrom(cbs, k, len) ==
  IF k > len THEN [calls |-> <<>>, cbs |-> cbs, offs |-> <<>>]
  ELSE IF k > Len(cbs) THEN EmitFrom(cbs, k + 1, len)
  ELSE LET h == cbs[k]
           after == IF RemovesItself(h) THEN OffSplice(cbs, h) ELSE cbs
           rest == EmitFrom(after, k + 1, len)
       IN [calls |-> <<h>> \o rest.calls,
           cbs |-> rest.cbs,
           offs |-> (IF RemovesItself(h) THEN <<h>> ELSE <<>>) \o rest.offs]

\* emit(event, data), called by the socket's message handlers
Emit(e) ==
  /\ LET r == EmitFrom(listeners[e], 1, Len(listeners[e])) IN
       /\ lastEmit' = [event |-> e,
                       removed |-> {h \in RegHandlers : <<e, h>> = lastOff},
                       calls |-> r.calls,
                       skipped |-> {listeners[e][i] : i \in DOMAIN listeners[e]}
                                     \ {r.calls[i] : i \in DOMAIN r.calls}]
       /\ listeners' = [listeners EXCEPT ![e] = r.cbs]
       /\ lastOff' = IF r.offs = <<>> THEN lastOff ELSE <<e, r.offs[Len(r.offs)]>>
  /\ UNCHANGED <<connVars, sendVars, apiVars, uiVars, frontVars>>

NextReg ==
  \/ \E e \in WsEvents, h \in RegHandlers : On(e, h)
  \/ \E e \in WsEvents, h \in RegHandlers : Off(e, h)
  \/ \E e \in WsEvents : Emit(e)

SpecReg == Init /\ [][NextReg]_vars

\* -------------------------------------------------------------- ApiService
LiveCountA == (IF apiSocket = NullSocket THEN 0 ELSE 1) + BagCardinality(apiOrphans)

TargetsA ==
  (IF apiSocket = NullSocket THEN {} ELSE {[cur |-> TRUE, s |-> apiSocket]})
  \cup {[cur |-> FALSE, s |-> o] : o \in BagToSet(apiOrphans)}

SetSockA(t, new) ==
  IF t.cur
  THEN /\ apiSocket' = new
       /\ apiOrphans' = apiOrphans
  ELSE /\ apiSocket' = apiSocket
       /\ apiOrphans' = (apiOrphans (-) SetToBag({t.s})) (+) SetToBag({new})

\* eventListeners.get(e): the callbacks of e, none when e has no entry
Registered(e) == IF e \in DOMAIN eventListeners THEN eventListeners[e] ELSE <<>>

\* the relays of the lifecycle events wrap each callback in try/catch, the relays
\* of the message events do not
Guarded_Never(e) == FALSE
Guarded(e) == e \in Lifecycle

\* the 'connect' relay reads socket.id for the callbacks' argument (inside the try)
\* and for resolve (outside it): with socket = null no callback runs and the
\* TypeError of the resolve line escapes
ReadsSocketId(e) == e = "connect"

\* what the relay of event e does with the callbacks cbs
RelayOver(e, cbs) ==
  IF ReadsSocketId(e) /\ apiSocket = NullSocket
  THEN [event |-> e, snapshot |-> cbs, calls |-> <<>>, escaped |-> "relay"]
  ELSE LET r == RunHandlers(cbs, Guarded(e))
       IN [event |-> e, snapshot |-> cbs, calls |-> r.calls,
           escaped |-> IF r.escaped THEN "handler" ELSE "none"]

\* what the relay of event e does when a socket reports e
Relay(e) == RelayOver(e, Registered(e))

\* initializeSocket(): io() makes a new socket and the module variable is overwritten
InitializeSocket ==
  /\ LiveCountA < MaxSockets
  /\ apiSocket' = FreshSocket
  /\ apiOrphans' = IF apiSocket = NullSocket THEN apiOrphans
                   ELSE apiOrphans (+) SetToBag({apiSocket})
  /\ UNCHANGED <<eventListeners, lastRelay, lastSend, connVars, sendVars, regVars, frontVars, uiVars>>

\* ---- what App makes of a socket event
\* the status an App handler sets; every handler returns at once when the component
\* is no longer mounted, and callbacks of other consumers do not touch the status
OnDisconnectStatus_Always(reason) == "reconnecting"
OnDisconnectStatus(reason) ==
  IF reason = ClientDisconnect THEN "disconnected" ELSE "reconnecting"

OnConnectErrorStatus_Error == "error"
OnConnectErrorStatus == "disconnected"

OnReconnectAttemptStatus_Retrying == "retrying"
OnReconnectAttemptStatus == "reconnecting"

OnReconnectStatus_Reconnecting == "reconnecting"
OnReconnectStatus == "connected"

HandlerStatus(h, reason, status) ==
  IF h \notin AppHandlers \/ ~isMounted THEN status
  ELSE CASE h = "onConnect" -> "connected"
         [] h = "onDisconnect" -> OnDisconnectStatus(reason)
         [] h = "onConnectError" -> OnConnectErrorStatus
         [] h = "onReconnectAttempt" -> OnReconnectAttemptStatus
         [] h = "onReconnect" -> OnReconnectStatus

\* the status after the callbacks calls[i..] ran one after the other
RECURSIVE StatusAfter(_, _, _, _)
StatusAfter(calls, reason, status, i) ==
  IF i > Len(calls) THEN status
  ELSE StatusAfter(calls, reason, HandlerStatus(calls[i], reason, status), i + 1)

\* init() of App has a try/catch around the await in App.js, none in part_001
InitCatches == build = "api"

\* the continuation of "await ApiService.initializeSocket()" in init(), once the
\* promise settled with outcome settled ("none": it did not settle in this step)
InitResult(settled, status) ==
  IF ~isMounted \/ settled = "none" THEN status
  ELSE IF settled = "resolved_ok" THEN "connected"
  ELSE IF settled = "resolved_fail" THEN "disconnected"
  ELSE IF InitCatches THEN "disconnected" ELSE status

\* the outcome with which the promise of socket t settles in a step that takes it to p
JustSettled(t, p) ==
  IF t.cur /\ t.s.promise = "pending" /\ p # "pending" THEN p ELSE "none"

\* the ApiService of part_015 has no relay for the lifecycle events and rejects the
\* promise on 'connect_error'
RelaysLifecycle == build # "early"
LifecycleRelay(e) == IF RelaysLifecycle THEN Relay(e) ELSE lastRelay
LifecycleCalls(e) == IF RelaysLifecycle THEN Relay(e).calls ELSE <<>>
ConnectErrorOutcome == IF build = "early" THEN "rejected" ELSE "resolved_fail"

\* the socket App uses reported event e: the callbacks calls ran, then the
\* continuation of init() when the promise settled
AppSees(cur, e, reason, calls, settled) ==
  /\ connectionStatus' = InitResult(settled, StatusAfter(calls, reason, connectionStatus, 1))
  /\ lastEvent' = IF isMounted /\ cur THEN [name |-> e, reason |-> reason] ELSE lastEvent
  /\ prevStatus' = IF isMounted /\ cur THEN connectionStatus ELSE prevStatus
  /\ UNCHANGED <<build, isMounted, svcSocket, jarvisListeners, lastJarvis>>

\* a socket reports 'connect': relay, then resolve({ success: true, ... })
ApiEvConnect(t) ==
  /\ t.s.st = "opening"
  /\ lastRelay' = LifecycleRelay("connect")
  /\ LET p == IF apiSocket = NullSocket THEN t.s.promise
              ELSE Settle(t.s.promise, "resolved_ok")
     IN /\ SetSockA(t, [st |-> "open", promise |-> p])
        /\ AppSees(t.cur, "connect", "none", LifecycleCalls("connect"), JustSettled(t, p))
  /\ UNCHANGED <<eventListeners, lastSend, connVars, sendVars, regVars, frontVars>>

\* a socket reports 'connect_error': relay, then resolve({ success: false, error });
\* with reconnectionAttempts: Infinity the library keeps trying
ApiEvConnectError(t) ==
  /\ t.s.st = "opening"
  /\ lastRelay' = LifecycleRelay("connect_error")
  /\ LET p == Settle(t.s.promise, ConnectErrorOutcome)
     IN /\ SetSockA(t, [t.s EXCEPT !.promise = p])
        /\ AppSees(t.cur, "connect_error", "none", LifecycleCalls("connect_error"),
                   JustSettled(t, p))
  /\ UNCHANGED <<eventListeners, lastSend, connVars, sendVars, regVars, frontVars>>

\* a socket reports 'disconnect' with a reason that is not the client's own
ApiEvDisconnect(t, reason) ==
  /\ t.s.st = "open"
  /\ reason \in ServerReasons
  /\ lastRelay' = LifecycleRelay("disconnect")
  /\ SetSockA(t, [t.s EXCEPT !.st = IF reason = "io server disconnect"
                                    THEN "lost" ELSE "opening"])
  /\ AppSees(t.cur, "disconnect", reason, LifecycleCalls("disconnect"), "none")
  /\ UNCHANGED <<eventListeners, lastSend, connVars, sendVars, regVars, frontVars>>

\* the library starts another attempt to reconnect a socket that failed or dropped
\* (2.x clients report it on the socket, later ones on the manager only)
ApiEvReconnectAttempt(t) ==
  /\ t.s.st = "opening"
  /\ t.s.promise # "pending"
  /\ lastRelay' = LifecycleRelay("reconnect_attempt")
  /\ AppSees(t.cur, "reconnect_attempt", "none", LifecycleCalls("reconnect_attempt"), "none")
  /\ UNCHANGED <<apiSocket, apiOrphans, eventListeners, lastSend, connVars, sendVars,
                 regVars, frontVars>>

\* the library reopened the transport of a socket that failed or dropped; the
\* socket's own 'connect' follows (2.x clients report 'reconnect' on the socket,
\* later ones on the manager only)
ApiEvReconnect(t) ==
  /\ t.s.st = "opening"
  /\ t.s.promise # "pending"
  /\ lastRelay' = LifecycleRelay("reconnect")
  /\ AppSees(t.cur, "reconnect", "none", LifecycleCalls("reconnect"), "none")
  /\ UNCHANGED <<apiSocket, apiOrphans, eventListeners, lastSend, connVars, sendVars,
                 regVars, frontVars>>

\* a connected socket receives 'chat_response'
ApiEvMessage(t) ==
  /\ t.s.st = "open"
  /\ lastRelay' = Relay("chat_response")
  /\ UNCHANGED <<apiSocket, apiOrphans, eventListeners, lastSend, connVars, sendVars,
                 regVars, frontVars, uiVars>>

\* disconnectSocket(): socket.disconnect() relays 'disconnect' synchronously when the
\* socket was connected; then socket = null and eventListeners.clear()
DisconnectSocket ==
  /\ LET wasOpen == apiSocket # NullSocket /\ apiSocket.st = "open" IN
       IF wasOpen
       THEN /\ lastRelay' = LifecycleRelay("disconnect")
            /\ AppSees(TRUE, "disconnect", ClientDisconnect, LifecycleCalls("disconnect"),
                       "none")
       ELSE UNCHANGED <<lastRelay, uiVars>>
  /\ apiSocket' = NullSocket
  /\ eventListeners' = [e \in AllEvents |-> <<>>]
  /\ UNCHANGED <<apiOrphans, lastSend, connVars, sendVars, regVars, frontVars>>

\* Set.prototype.add and Set.prototype.delete on a Set kept in insertion order
SetAdd(cbs, h) == IF IndexOf(cbs, h, 1) > 0 THEN cbs ELSE Append(cbs, h)
SetDelete(cbs, h) ==
  LET i == IndexOf(cbs, h, 1) IN IF i > 0 THEN RemoveAt(cbs, i) ELSE cbs

\* addEventListener(event, callback): Set.add
AddEventListener(e, h) ==
  /\ eventListeners' = [eventListeners EXCEPT ![e] = SetAdd(@, h)]
  /\ UNCHANGED <<apiSocket, apiOrphans, lastRelay, lastSend, connVars, sendVars, regVars, frontVars, uiVars>>

\* removeEventListener(event, callback): Set.delete
RemoveEventListener(e, h) ==
  /\ eventListeners' = [eventListeners EXCEPT ![e] = SetDelete(@, h)]
  /\ UNCHANGED <<apiSocket, apiOrphans, lastRelay, lastSend, connVars, sendVars, regVars, frontVars, uiVars>>

\* socket && socket.connected
ApiConnected == apiSocket # NullSocket /\ apiSocket.st = "open"

\* how a send call ends.  sendSocketMessage resolves { success: false } when there is
\* no connected socket and otherwise waits for the acknowledgement; the three
\* assignments at the end of api.js evaluate socket.emit(...), a TypeError when
\* socket is null and the socket itself otherwise
SendOutcome(op) ==
  IF op = "sendSocketMessage"
  THEN IF ApiConnected THEN "awaiting_ack" ELSE "resolved_failure"
  ELSE IF apiSocket = NullSocket THEN "threw" ELSE "returned_socket"

ApiSend(op) ==
  /\ lastSend' = [op |-> op, connected |-> ApiConnected, outcome |-> SendOutcome(op)]
  /\ UNCHANGED <<apiSocket, apiOrphans, eventListeners, lastRelay, connVars, sendVars,
                 regVars, frontVars, uiVars>>

NextApiConn ==
  \/ InitializeSocket
  \/ DisconnectSocket
  \/ \E t \in TargetsA : ApiEvConnect(t)
  \/ \E t \in TargetsA : ApiEvConnectError(t)
  \/ \E t \in TargetsA, r \in ServerReasons : ApiEvDisconnect(t, r)

\* ApiService with its listeners and the relays
NextA ==
  \/ NextApiConn
  \/ \E t \in TargetsA : ApiEvMessage(t)
  \/ \E e \in ListenEvents, h \in Handlers : AddEventListener(e, h)
  \/ \E e \in ListenEvents, h \in Handlers : RemoveEventListener(e, h)

SpecA == Init /\ [][NextA]_vars

\* ApiService with its send calls
NextASend ==
  \/ NextApiConn
  \/ \E op \in SendOps : ApiSend(op)

SpecASend == Init /\ [][NextASend]_vars

\* ---- the promise of sendSocketMessage
\* sendSocketMessage(event, data) as its caller sees it: resolved at once without a
\* connected socket, otherwise socket.emit(event, data, ack) and the promise waits
\* for the acknowledgement
SendSocketMessage ==
  /\ ackPromise = "none"
  /\ lastSend' = [op |-> "sendSocketMessage", connected |-> ApiConnected,
                  outcome |-> SendOutcome("sendSocketMessage")]
  /\ ackPromise' = IF SendOutcome("sendSocketMessage") = "awaiting_ack"
                   THEN "pending" ELSE "resolved_failure"
  /\ UNCHANGED <<apiSocket, apiOrphans, eventListeners, lastRelay, connVars, sendVars,
                 regVars, uiVars, appSliceVars, chatVars, panelVars, secVars>>

\* the backend acknowledges the message: the callback given to emit resolves the
\* promise; an acknowledgement travels over a connected socket only
BackendAck ==
  /\ ackPromise = "pending"
  /\ ApiConnected
  /\ ackPromise' = "resolved_ack"
  /\ UNCHANGED <<apiVars, connVars, sendVars, regVars, uiVars, appSliceVars, chatVars, panelVars, secVars>>

NextAck ==
  \/ NextApiConn
  \/ SendSocketMessage
  \/ BackendAck

\* a backend that stays connected answers in the end
SpecAck == Init /\ [][NextAck]_vars /\ WF_vars(BackendAck)

\* --------------------------------------------------------------------- App
\* the handler App registers for event e
AppHandlerOf(e) == CHOOSE h \in AppHandlers : AppEventOf(h) = e

\* eventListeners after the five addEventListener / removeEventListener calls of App
WithAppHandlers(el) ==
  [e \in DOMAIN el |-> IF e \in AppEvents THEN SetAdd(el[e], AppHandlerOf(e)) ELSE el[e]]
WithoutAppHandlers(el) ==
  [e \in DOMAIN el |-> IF e \in AppEvents THEN SetDelete(el[e], AppHandlerOf(e)) ELSE el[e]]

\* the effect of App over ApiService: init() calls initializeSocket(), then the
\* five handlers are registered
AppMount ==
  /\ build \in ApiBuilds
  /\ ~isMounted
  /\ LiveCountA < MaxSockets
  /\ isMounted' = TRUE
  /\ connectionStatus' = "connecting"
  /\ apiSocket' = FreshSocket
  /\ apiOrphans' = IF apiSocket = NullSocket THEN apiOrphans
                   ELSE apiOrphans (+) SetToBag({apiSocket})
  /\ eventListeners' = WithAppHandlers(eventListeners)
  /\ lastEvent' = NoEvent
  /\ prevStatus' = "none"
  /\ UNCHANGED <<build, svcSocket, jarvisListeners, lastJarvis, lastRelay, lastSend,
                 connVars, sendVars, regVars, frontVars>>

\* the cleanup of that effect: isMounted = false, the handlers are removed, then
\* disconnectSocket()
AppUnmount ==
  /\ build \in ApiBuilds
  /\ isMounted
  /\ isMounted' = FALSE
  /\ lastRelay' = IF apiSocket # NullSocket /\ apiSocket.st = "open" /\ RelaysLifecycle
                  THEN RelayOver("disconnect",
                                 WithoutAppHandlers(eventListeners)["disconnect"])
                  ELSE lastRelay
  /\ apiSocket' = NullSocket
  /\ eventListeners' = [e \in AllEvents |-> <<>>]
  /\ UNCHANGED <<build, connectionStatus, svcSocket, jarvisListeners, lastEvent, prevStatus,
                 lastJarvis, apiOrphans, lastSend, connVars, sendVars, regVars, frontVars>>

\* ---- App over socketService
\* the window listeners of the bridge build set the status on "jarvis-connected" and
\* "jarvis-disconnected"; the direct build has no lifecycle handler that sets it
BridgeStatus(online, status) ==
  IF build = "bridge" /\ isMounted
  THEN (IF online THEN "connected" ELSE "disconnected")
  ELSE status

\* the socket of socketService reported a lifecycle event
SvcSees(e, reason, online) ==
  /\ connectionStatus' = BridgeStatus(online, connectionStatus)
  /\ lastEvent' = [name |-> e, reason |-> reason]
  /\ prevStatus' = connectionStatus
  /\ UNCHANGED <<build, isMounted, jarvisListeners, lastJarvis>>

SvcEvConnect ==
  /\ build \in SvcBuilds
  /\ svcSocket = "opening"
  /\ svcSocket' = "open"
  /\ SvcSees("connect", "none", TRUE)
  /\ UNCHANGED <<connVars, sendVars, regVars, frontVars, apiVars>>

\* 'connect_error': the library tries again until reconnectionAttempts is used up
SvcEvConnectError(giveUp) ==
  /\ build \in SvcBuilds
  /\ svcSocket = "opening"
  /\ svcSocket' = IF giveUp THEN "lost" ELSE "opening"
  /\ SvcSees("connect_error", "none", FALSE)
  /\ UNCHANGED <<connVars, sendVars, regVars, frontVars, apiVars>>

SvcEvDisconnect(reason) ==
  /\ build \in SvcBuilds
  /\ svcSocket = "open"
  /\ reason \in ServerReasons
  /\ svcSocket' = IF reason = "io server disconnect" THEN "lost" ELSE "opening"
  /\ SvcSees("disconnect", reason, FALSE)
  /\ UNCHANGED <<connVars, sendVars, regVars, frontVars, apiVars>>

\* registerJarvisListener(callback): part_014 removes every 'jarvis_response'
\* listener before it adds the new one, part_013 only adds
RegisterJarvisListener(ls) ==
  IF build = "bridge" THEN [live |-> 1, stale |-> 0]
  ELSE [ls EXCEPT !.live = @ + 1]

\* what setConnectionStatus the effect itself calls: part_002 sets "connected"
MountStatus == IF build = "direct" THEN "connected" ELSE "connecting"

\* the effect of App over socketService
SvcMount ==
  /\ build \in SvcBuilds
  /\ ~isMounted
  /\ jarvisListeners.live + jarvisListeners.stale < MaxListeners
  /\ isMounted' = TRUE
  /\ jarvisListeners' = RegisterJarvisListener(jarvisListeners)
  /\ connectionStatus' = MountStatus
  /\ prevStatus' = "none"
  /\ UNCHANGED <<build, svcSocket, lastEvent, lastJarvis, connVars, sendVars,
                 regVars, frontVars, apiVars>>

\* its cleanup: registerJarvisListener returned undefined, so "if (unregister)
\* unregister()" does nothing and the listener stays on the socket (part_002 has
\* no cleanup at all)
SvcUnmount ==
  /\ build \in SvcBuilds
  /\ isMounted
  /\ isMounted' = FALSE
  /\ jarvisListeners' = [live |-> 0, stale |-> jarvisListeners.live + jarvisListeners.stale]
  /\ UNCHANGED <<build, connectionStatus, svcSocket, lastEvent, prevStatus, lastJarvis,
                 connVars, sendVars, regVars, frontVars, apiVars>>

\* the backend sends 'jarvis_response': every listener on the socket runs once
SvcEvJarvisResponse ==
  /\ build \in SvcBuilds
  /\ svcSocket = "open"
  /\ lastJarvis' = jarvisListeners
  /\ UNCHANGED <<build, connectionStatus, isMounted, svcSocket, jarvisListeners, lastEvent,
                 prevStatus, connVars, sendVars, regVars, frontVars, apiVars>>

\* what happens around App over ApiService: the socket's events, the teardown of
\* another consumer (ChatPanel.js:45) and the 'connect' callbacks of other consumers
ApiStep ==
  /\ build \in ApiBuilds
  /\ \/ \E t \in TargetsA : ApiEvConnect(t)
     \/ \E t \in TargetsA : ApiEvConnectError(t)
     \/ \E t \in TargetsA, r \in ServerReasons : ApiEvDisconnect(t, r)
     \/ \E t \in TargetsA : ApiEvReconnectAttempt(t)
     \/ \E t \in TargetsA : ApiEvReconnect(t)
     \/ DisconnectSocket
     \/ \E h \in Handlers : AddEventListener("connect", h)

NextUI ==
  \/ AppMount
  \/ AppUnmount
  \/ ApiStep
  \/ SvcMount
  \/ SvcUnmount
  \/ SvcEvConnect
  \/ \E g \in BOOLEAN : SvcEvConnectError(g)
  \/ \E r \in ServerReasons : SvcEvDisconnect(r)
  \/ SvcEvJarvisResponse

SpecUI == InitBuilds /\ [][NextUI]_vars

\* ---------------------------------------------------------------- appSlice
\* the payloads setConnectionStatus is given
StatusPayloads == {"disconnected", "connecting", "connected", "reconnecting", "error"}

\* setConnectionStatus(payload)
ConnectedFor_Kept(p) == appIsConnected
ConnectedFor(p) == p = "connected"

SetConnectionStatus(p) ==
  /\ appConnectionStatus' = p
  /\ appIsConnected' = ConnectedFor(p)
  /\ UNCHANGED <<isOffline, notifications, now, evicted>>

\* setOfflineStatus(payload); setVoiceActive, setListening, setTheme, setActivePanel
\* and setError likewise assign the one field they are named after
SetOfflineStatus(b) ==
  /\ isOffline' = b
  /\ UNCHANGED <<appIsConnected, appConnectionStatus, notifications, now, evicted>>

\* "Keep only the last 10 notifications": shift() once the list is longer
KeepLast_NoLimit(ns) == ns
KeepLast(ns) == IF Len(ns) > MaxNotifications THEN Tail(ns) ELSE ns

\* addNotification(payload): push({ id: Date.now(), ...payload }), then the limit
AddNotification ==
  /\ notifications' = KeepLast(Append(notifications, now))
  /\ evicted' = (Len(notifications) + 1 > MaxNotifications)
  /\ UNCHANGED <<appIsConnected, appConnectionStatus, isOffline, now>>

\* Array.prototype.filter(n => n.id !== id)
FilterOut(ns, id) == SelectSeq(ns, LAMBDA n : n # id)

\* clearNotification(id)
ClearNotification(id) ==
  /\ notifications' = FilterOut(notifications, id)
  /\ evicted' = FALSE
  /\ UNCHANGED <<appIsConnected, appConnectionStatus, isOffline, now>>

\* clearAllNotifications()
ClearAllNotifications ==
  /\ notifications' = <<>>
  /\ evicted' = FALSE
  /\ UNCHANGED <<appIsConnected, appConnectionStatus, isOffline, now>>

\* time passes between two dispatches
Tick ==
  /\ now < MaxClock
  /\ now' = now + 1
  /\ UNCHANGED <<appIsConnected, appConnectionStatus, isOffline, notifications, evicted>>

NextAppSlice ==
  /\ \/ \E p \in StatusPayloads : SetConnectionStatus(p)
     \/ \E b \in BOOLEAN : SetOfflineStatus(b)
     \/ AddNotification
     \/ \E id \in 0..MaxClock : ClearNotification(id)
     \/ ClearAllNotifications
     \/ Tick
  /\ UNCHANGED <<connVars, sendVars, regVars, apiVars, uiVars, callVars, chatVars,
                 panelVars, secVars>>

SpecAppSlice == Init /\ [][NextAppSlice]_vars

\* --------------------------------------------------------------- chatSlice
\* dispatch(sendMessage(text)): createAsyncThunk dispatches sendMessage.pending
\* before the request leaves; the reducer of pending
DispatchSendMessage(r, msgs) ==
  /\ chatRequests[r] = "idle"
  /\ chatRequests' = [chatRequests EXCEPT ![r] = "pending"]
  /\ isProcessing' = TRUE
  /\ chatError' = "null"
  /\ chatMessages' = msgs
  /\ UNCHANGED lastMessageId

\* dispatch(sendMessage(text)) by any holder of the store
SendMessageThunk(r) == DispatchSendMessage(r, chatMessages)

\* ChatInterface.handleSendMessage: returns at once while isProcessing, otherwise
\* addMessage({ sender: 'user' }) and then the thunk
HandleSendMessage(r) ==
  /\ ~isProcessing
  /\ DispatchSendMessage(r, Append(chatMessages, "user"))

\* the reducer of sendMessage.fulfilled
SendFulfilled(r) ==
  /\ chatRequests[r] = "pending"
  /\ chatRequests' = [chatRequests EXCEPT ![r] = "fulfilled"]
  /\ isProcessing' = FALSE
  /\ chatMessages' = Append(chatMessages, "jarvis")
  /\ lastMessageId' = Len(chatMessages) + 1
  /\ UNCHANGED chatError

\* the reducer of sendMessage.rejected
SendRejected(r) ==
  /\ chatRequests[r] = "pending"
  /\ chatRequests' = [chatRequests EXCEPT ![r] = "rejected"]
  /\ isProcessing' = FALSE
  /\ chatError' = "message"
  /\ chatMessages' = Append(chatMessages, "error")
  /\ UNCHANGED lastMessageId

NextChat ==
  /\ \E r \in 1..MaxRequests :
       \/ SendMessageThunk(r)
       \/ HandleSendMessage(r)
       \/ SendFulfilled(r)
       \/ SendRejected(r)
  /\ UNCHANGED <<connVars, sendVars, regVars, apiVars, uiVars, appSliceVars, callVars,
                 panelVars, secVars>>

SpecChat == Init /\ [][NextChat]_vars

\* --------------------------------------------------------------- ChatPanel
\* the catch block of toggleMic: components/ChatPanel.js calls setListening(false),
\* src/ChatPanel.js only logs
CatchResets == panel = "components"

\* the listening flag after toggleMic ran, given how the ApiService call ended: a
\* failed start happens after setListening(true), a failed stop before
\* setListening(false), so without a reset in the catch block the flag is true
AfterToggle(was, outcome) ==
  IF outcome = "threw" THEN ~CatchResets ELSE ~was

\* toggleMic(): not listening: setListening(true), then startVoiceRecognition();
\* listening: stopVoiceRecognition(), then setListening(false)
ToggleMic ==
  /\ LET op == IF listening THEN "stopVoiceRecognition" ELSE "startVoiceRecognition" IN
       /\ lastSend' = [op |-> op, connected |-> ApiConnected, outcome |-> SendOutcome(op)]
       /\ lastToggle' = [op |-> op, outcome |-> SendOutcome(op)]
       /\ listening' = AfterToggle(listening, SendOutcome(op))
  /\ UNCHANGED <<panel, apiSocket, apiOrphans, eventListeners, lastRelay, connVars, sendVars,
                 regVars, uiVars, appSliceVars, callVars, chatVars, secVars>>

NextPanel ==
  \/ NextApiConn
  \/ ToggleMic

InitPanels ==
  /\ InitW /\ InitReg /\ InitA /\ InitUI("api") /\ InitSlices
  /\ \E p \in PanelFiles : InitPanel(p)

SpecPanel == InitPanels /\ [][NextPanel]_vars

\* ----------------------------------------------------------- securitySlice
Users == {"alice"}
SecurityLevels == {"standard", "high", "custom"}

\* logout()
Logout ==
  /\ isAuthenticated' = FALSE
  /\ user' = "null"
  /\ UNCHANGED <<authRequests, securityLevel, isLoading, authError>>

\* setSecurityLevel(payload); updatePrivacySettings likewise assigns its own field
SetSecurityLevel(l) ==
  /\ securityLevel' = l
  /\ UNCHANGED <<authRequests, isAuthenticated, user, isLoading, authError>>

\* dispatch(authenticate(credentials)): the reducer of authenticate.pending
AuthPending(r) ==
  /\ authRequests[r] = "idle"
  /\ authRequests' = [authRequests EXCEPT ![r] = "pending"]
  /\ isLoading' = TRUE
  /\ authError' = "null"
  /\ UNCHANGED <<isAuthenticated, user, securityLevel>>

\* the reducer of authenticate.fulfilled
AuthFulfilled(r, u) ==
  /\ authRequests[r] = "pending"
  /\ authRequests' = [authRequests EXCEPT ![r] = "fulfilled"]
  /\ isLoading' = FALSE
  /\ isAuthenticated' = TRUE
  /\ user' = u
  /\ UNCHANGED <<securityLevel, authError>>

\* the reducer of authenticate.rejected
AuthRejected(r) ==
  /\ authRequests[r] = "pending"
  /\ authRequests' = [authRequests EXCEPT ![r] = "rejected"]
  /\ isLoading' = FALSE
  /\ authError' = "message"
  /\ isAuthenticated' = FALSE
  /\ UNCHANGED <<user, securityLevel>>

NextSecurity ==
  /\ \/ Logout
     \/ \E l \in SecurityLevels : SetSecurityLevel(l)
     \/ \E r \in 1..MaxRequests : AuthPending(r)
     \/ \E r \in 1..MaxRequests, u \in Users : AuthFulfilled(r, u)
     \/ \E r \in 1..MaxRequests : AuthRejected(r)
  /\ UNCHANGED <<connVars, sendVars, regVars, apiVars, uiVars, appSliceVars, callVars,
                 chatVars, panelVars>>

SpecSecurity == Init /\ [][NextSecurity]_vars

Next == NextSend \/ NextPanel \/ NextSecurity \/ NextChat \/ NextAck \/ NextWMany \/ NextReg \/ NextA \/ NextASend \/ NextUI \/ NextAppSlice

Spec == Init /\ [][Next]_vars

Range(seq) == {seq[i] : i \in DOMAIN seq}

\* ==================================================================== claims

\* C1: connect is idempotent: after any sequence of connect and disconnect calls
\* at most one underlying socket is open and none is left open without being
\* referenced by the service.  (SpecW)
C1_SingleSocket == LiveCount <= 1 /\ orphans = EmptyBag

\* C2: registering the same (event, handler) pair twice registers it once, so one
\* emit invokes every handler at most one time.  (SpecReg)
C2_Deduplicated ==
  \A h \in RegHandlers :
    Cardinality({i \in DOMAIN lastEmit.calls : lastEmit.calls[i] = h}) <= 1

\* C3: when a handler throws while an event is delivered, the handlers registered
\* after it are still invoked and the exception does not reach the emitter, for
\* lifecycle and message events alike.  (SpecA)
C3_ThrowIsolated ==
  (\E i \in DOMAIN lastRelay.calls : Throws(lastRelay.calls[i]))
    => (lastRelay.calls = lastRelay.snapshot /\ lastRelay.escaped # "handler")

\* C4: a deliberate disconnect() never triggers a reconnection: the disconnect()
\* step schedules no reconnect timer and counts no attempt, and while this.socket
\* stays null a reconnect timer that runs reopens no socket.  (SpecW)
C4_NoReconnectAfterDisconnect ==
  [][ /\ (socket # NullSocket /\ socket' = NullSocket)
         => (reconnectAttempts' = reconnectAttempts /\ Len(timers') = Len(timers))
      /\ (socket = NullSocket /\ Len(timers') < Len(timers))
         => (socket' = NullSocket /\ orphans' = orphans) ]_vars

\* C4 witness: disconnect() has just closed a connected socket (the handler saw the
\* client's own reason) and nothing is scheduled.
C4_Witness ==
  /\ cancelled = "established"
  /\ socket = NullSocket
  /\ timers = <<>>
  /\ reconnectAttempts = 0

\* C5: after disconnect() was called while a connect() was in flight, the connected
\* flag is false and stays false whatever completion of a stale attempt arrives,
\* until connect() is called again.  (SpecW)
C5_StaleCompletionIgnored == cancelled = "in_flight" => ~isConnected

\* C6: disconnect() cancels pending reconnect timers: a timer scheduled before a
\* disconnect() call never gets to call socket.connect(), also when connect() was
\* called again before it runs.  (SpecW)
C6_TimerCancelled ==
  [][ \A i \in DOMAIN timers :
        (timers' = RemoveAt(timers, i) /\ timers[i].stale) => socket = NullSocket ]_vars

\* C7: a send operation called while no connected socket exists neither throws nor
\* rejects: it ends with a result that tells the caller the message was not
\* delivered.  (SpecASend)
C7_SendNeverThrows ==
  (lastSend.op # "none" /\ ~lastSend.connected) => lastSend.outcome = "resolved_failure"

Settled ==
  /\ socket # NullSocket
  /\ socket.st = "lost"
  /\ socket.promise # "pending"
  /\ reconnectAttempts >= 1
  /\ timers = <<>>
  /\ orphans = EmptyBag

\* C9: with a backend that never comes back the service makes exactly
\* maxReconnectAttempts attempts and then reports the failure.  (SpecW)
C9_ExhaustsAttempts ==
  Settled => (reconnectAttempts = MaxReconnectAttempts /\ socket.promise = "rejected")

\* the cap of C10, in the proportion the claim gives it (base 100, cap 800)
ClaimedMaxDelay == 8 * ReconnectDelay

\* C10 as stated: the delay before the n-th attempt is
\* min(baseDelay * 2^(n-1), maxDelay).  (SpecW)
C10_ExponentialBackoff ==
  \A i \in DOMAIN timers :
    timers[i].delay = Min(ReconnectDelay * Pow2(timers[i].attempt - 1), ClaimedMaxDelay)

\* C10 amended: the delay before the n-th attempt is reconnectDelay * n, linear and
\* without a cap.  (SpecW)
C10_LinearBackoff ==
  \A i \in DOMAIN timers : timers[i].delay = ReconnectDelay * timers[i].attempt

\* C10 witness: a third attempt is scheduled.
C10_Witness == \E i \in DOMAIN timers : timers[i].attempt = 3
\* the mounted App has just been told of lifecycle event e, which arrived while its
\* status was one of from
Told(e, from) == isMounted /\ lastEvent.name = e /\ prevStatus \in from

\* C11 as stated: a disconnect event that arrives while the status is connected
\* gives disconnected when the client asked for it and reconnecting for every
\* other reason.  (SpecUI, builds api and bridge)
C11_DisconnectByReason ==
  (build \in {"api", "bridge"} /\ Told("disconnect", {"connected"}))
    => connectionStatus = (IF lastEvent.reason = ClientDisconnect
                           THEN "disconnected" ELSE "reconnecting")

\* C11 amended: that holds for App over ApiService; App over socketService gets
\* "jarvis-disconnected" for every disconnect and its status is disconnected
\* whatever the reason.  (SpecUI, builds api and bridge)
C11_DisconnectByBuild ==
  /\ (build = "api" /\ Told("disconnect", {"connected"}))
       => connectionStatus = (IF lastEvent.reason = ClientDisconnect
                              THEN "disconnected" ELSE "reconnecting")
  /\ (build = "bridge" /\ Told("disconnect", {"connected"}))
       => connectionStatus = "disconnected"

\* C11 witness: the server dropped the connection of App over ApiService.
C11_Witness ==
  /\ build = "api"
  /\ Told("disconnect", {"connected"})
  /\ lastEvent.reason \in ServerReasons
  /\ connectionStatus = "reconnecting"

StatusValues == {"disconnected", "connecting", "connected", "reconnecting", "error"}

\* C13: in every reachable state the connection status is one of disconnected,
\* connecting, connected, reconnecting, error.  (SpecUI)
C13_StatusInRange == connectionStatus \in StatusValues

\* C13 witness: a reconnect attempt was reported after a loss of connection.
C13_Witness ==
  /\ Told("reconnect_attempt", {"reconnecting", "disconnected"})
  /\ connectionStatus = "reconnecting"
\* C14: once off(event, h) was called after any number of on(event, h), a later
\* emit of the event does not invoke h.  (SpecReg)
C14_OffRemovesHandler == \A h \in lastEmit.removed : h \notin Range(lastEmit.calls)

\* the status the handler of App sets for lifecycle event ev
StatusOf(ev) ==
  CASE ev.name = "connect" -> "connected"
    [] ev.name = "connect_error" -> "disconnected"
    [] ev.name = "disconnect" ->
         (IF ev.reason = ClientDisconnect THEN "disconnected" ELSE "reconnecting")
    [] ev.name = "reconnect_attempt" -> "reconnecting"
    [] ev.name = "reconnect" -> "connected"

\* how often callback h occurs in calls
Times(calls, h) == Cardinality({i \in DOMAIN calls : calls[i] = h})

\* C15: the lifecycle events of the connection reach the handlers of App, and the
\* status, in the order the socket produced them: the event the socket produced
\* last is the one relayed last, its handler ran exactly once, and the status is
\* the one that event gives.  (SpecUI, build api)
C15_DeliveredInOrder ==
  (build = "api" /\ isMounted /\ lastEvent.name # "none")
    => /\ lastRelay.event = lastEvent.name
       /\ Times(lastRelay.calls, AppHandlerOf(lastEvent.name)) = 1
       /\ connectionStatus = StatusOf(lastEvent)

\* C15 witness: the connection came back after a drop, with a throwing callback
\* of another consumer registered for 'connect' before the handler of App.
C15_Witness ==
  /\ build = "api"
  /\ Told("connect", {"reconnecting"})
  /\ connectionStatus = "connected"
  /\ lastRelay.calls = <<"hThrow", "onConnect">>

\* C16: an emission pass works on a snapshot of the handlers: it skips none of the
\* handlers registered when it began, also when one of them removes a handler
\* while the pass runs.  (SpecReg)
C16_EmitUsesSnapshot == lastEmit.skipped = {}

\* C17: a failed connection attempt is not thrown or rejected out of
\* initializeSocket: once the socket reported a connect error the promise is
\* resolved, the connect-error handler of App has run, and the status is no
\* longer connecting.  (SpecUI, builds api and early)
C17_FailureIsAnEvent ==
  (build \in ApiBuilds /\ isMounted /\ lastEvent.name = "connect_error"
     /\ apiSocket # NullSocket)
    => /\ apiSocket.promise \in {"resolved_ok", "resolved_fail"}
       /\ lastRelay.event = "connect_error"
       /\ Times(lastRelay.calls, "onConnectError") = 1
       /\ connectionStatus # "connecting"

\* the pairs (status, lifecycle event) the transition table defines
TableDefines(status, e) ==
  CASE status \in {"disconnected", "connecting", "error"} -> e \in {"connect", "connect_error"}
    [] status = "connected" -> e = "disconnect"
    [] status = "reconnecting" -> e \in {"reconnect_attempt", "reconnect", "connect"}
    [] OTHER -> FALSE

\* C18: a lifecycle event the transition table does not define for the current
\* status does not change the status.  (SpecUI, build api)
C18_UndefinedPairKeepsStatus ==
  (build = "api" /\ isMounted /\ lastEvent.name # "none" /\ prevStatus # "none"
     /\ ~TableDefines(prevStatus, lastEvent.name))
    => connectionStatus = prevStatus

\* C19: the status is connected only when the most recent lifecycle event of the
\* socket was a successful connect or reconnect.  (SpecUI)
C19_NeverOptimistic ==
  (isMounted /\ connectionStatus = "connected") => lastEvent.name \in {"connect", "reconnect"}

\* C20: an inbound jarvis_response that reaches the mounted App is delivered once,
\* and to no callback of an App that was unmounted.  (SpecUI, builds bridge and direct)
C20_DeliveredOnce ==
  lastJarvis.live > 0 => (lastJarvis.live = 1 /\ lastJarvis.stale = 0)

C22_OffIdempotent ==
  [][\A e \in WsEvents, h \in RegHandlers :
       (lastOff = <<e, h>> /\ Off(e, h)) => listeners' = listeners]_vars

\* C23: the teardown of another consumer (its cleanup calls disconnectSocket) while
\* App is mounted leaves the callbacks registered with ApiService and the shared
\* socket as they are.  (SpecUI, builds api and early)
C23_TeardownLeavesOthers ==
  [][(build \in ApiBuilds /\ isMounted /\ DisconnectSocket)
       => (eventListeners' = eventListeners /\ apiSocket' = apiSocket)]_vars

\* C24: in every state of the app slice isConnected is true exactly when
\* connectionStatus is 'connected'.  (SpecAppSlice)
C24_IsConnectedMatchesStatus == appIsConnected <=> (appConnectionStatus = "connected")

\* C24 witness: the status was set to 'connected'.
C24_Witness == appConnectionStatus = "connected" /\ appIsConnected

\* C30: the notifications list never holds more than 10 entries, and an
\* addNotification on a full list drops the oldest entry and appends the new one
\* behind the others, which keep their order.  (SpecAppSlice)
C30_AtMostTen ==
  /\ [](Len(notifications) <= MaxNotifications)
  /\ [][(AddNotification /\ Len(notifications) = MaxNotifications)
          => notifications' = Append(Tail(notifications), now)]_vars

\* C30 witness: an addNotification on a full list pushed out an entry older than
\* the ones that stayed.
C30_Witness ==
  /\ evicted
  /\ Len(notifications) = MaxNotifications
  /\ notifications[1] # notifications[MaxNotifications]

\* the sockets that are connected, this.socket and the unreferenced ones
OpenCount ==
  (IF socket # NullSocket /\ socket.st = "open" THEN 1 ELSE 0)
    + BagCardinality([s \in {x \in BagToSet(orphans) : x.st = "open"} |-> orphans[s]])

\* C25: reconnectAttempts is always within 0..maxReconnectAttempts, and it is 0
\* right after every 'connect' event of a socket.  (SpecWMany)
C25_AttemptsWithinBudget ==
  /\ [](reconnectAttempts \in 0..MaxReconnectAttempts)
  /\ [][OpenCount' > OpenCount => reconnectAttempts' = 0]_vars

\* C25 witness: every attempt of the budget is used.
C25_Witness == reconnectAttempts = MaxReconnectAttempts /\ ~isConnected

\* C26: every promise returned by sendSocketMessage settles in the end.  (SpecAck)
C26_SendSettles == (ackPromise = "pending") ~> (ackPromise # "pending")

\* the sendMessage requests that have not settled
PendingRequests == {r \in DOMAIN chatRequests : chatRequests[r] = "pending"}

\* C27: isProcessing is true exactly in the states where at least one sendMessage
\* request is pending.  (SpecChat)
C27_ProcessingWhilePending == isProcessing <=> (PendingRequests # {})

\* C28: when the start of voice recognition failed inside toggleMic, the listening
\* flag is false afterwards.  (SpecPanel)
C28_FailedStartNotListening ==
  (lastToggle.op = "startVoiceRecognition" /\ lastToggle.outcome = "threw") => ~listening

\* C29: whenever isAuthenticated is false, no user is recorded.  (SpecSecurity)
C29_NoUserUnlessAuthenticated == ~isAuthenticated => user = "null"
====
